---------------------------- MODULE Spec2Model ----------------------------
(***************************************************************************)
(* A model of django-model-as-view (package mviews): the pagination        *)
(* engine (serializer/utils.py), the graph serializer                      *)
(* (serializer/models2dicts.py), the envelope builder                      *)
(* (serializer/serializers.py) and the request dispatch                    *)
(* (mview/modelviews.py).                                                  *)
(*                                                                         *)
(* Python values that reach int() are modelled as records                  *)
(* [t, v, s]: an int, a str (a sequence of one-character strings) or None. *)
(* A call that raises is modelled by a result whose field exc names the    *)
(* exception; exc = "" means the call returned.                            *)
(***************************************************************************)
EXTENDS Integers, Sequences, FiniteSets, TLC

VARIABLES
    rowCount,   \* pagination: number of rows of the queryset being paged
    pagePc,     \* pagination: "idle" | "called" | "done"
    pageReq,    \* pagination: the arguments of create_paging_dict
    pageOut,    \* pagination: what create_paging_dict returned or raised
    schema,     \* serializer: the model classes of the process
    hyperlinks, \* serializer: settings.HYPERLINK_VALUES
    rels,       \* serializer: the default set rels of _foreign_obj_to_dict
    fos,        \* serializer: the default set fos of _foreign_obj_to_dict
    serPc,      \* serializer: "idle" | "called" | "done"
    serReq,     \* serializer: the arguments of convert_to_dicts
    serOut,     \* serializer: what convert_to_dicts returned or raised
    serPrev,    \* serializer: what the same call returned just before
    viewPc,     \* dispatch: "idle" | "requested" | "dispatched"
    viewReq,    \* dispatch: the request and the attributes of the model
    viewOut,    \* dispatch: the attributes set on the view and its answer
    envPc,      \* envelope: "idle" | "called" | "done"
    envReq,     \* envelope: the arguments of _serialize_json
    envOut,     \* envelope: what _serialize_json returned or raised
    getStore,   \* get: the entities of the model
    getPc,      \* get: "idle" | "requested" | "answered"
    getReq,     \* get: the path argument, the query string, the model
    getOut,     \* get: what do_get returned and what get answered
    putStore,   \* put: the entities of the model
    putClass,   \* put: the _no_update_fields attribute of the view class
    putDeclared, \* put: _no_update_fields as the class body declares it
    putFirst,   \* put: the no_updates of the first OPTIONS answer
    putPc,      \* put: "idle" | "requested" | "answered"
    putReq,     \* put: the method, the path argument and the body
    putOut,     \* put: the answer, and the store the request found
    putRel,     \* put: the many-to-many relation tags of each entity id
    schClass,   \* schema: the public_fields the view class declares
    schInst,    \* schema: the view instance of each request in progress
    schBuilds   \* schema: how often field_names was computed for the type

pageVars == <<rowCount, pagePc, pageReq, pageOut>>
serVars == <<schema, hyperlinks, rels, fos, serPc, serReq, serOut, serPrev>>

viewVars == <<viewPc, viewReq, viewOut>>
envVars == <<envPc, envReq, envOut>>
getVars == <<getStore, getPc, getReq, getOut>>
putVars ==
    <<putStore, putClass, putDeclared, putFirst, putPc, putReq, putOut,
      putRel>>
schVars == <<schClass, schInst, schBuilds>>

vars == <<pageVars, serVars, viewVars, envVars, getVars, putVars, schVars>>

---------------------------------------------------------------------------
(* Bounds of the model *)

MaxRows == 25       \* rows in the paged queryset
MaxStrLen == 2      \* length of a query-string value
MaxIntArg == 11     \* largest int passed directly as limit
MaxPageArg == 4     \* largest int passed directly as page
MaxRoots == 2       \* entities in the serialized queryset
MaxDepth == 5       \* largest requested expansion depth
RelSize == 2        \* members of a to-many relation
MaxMatch == 3       \* rows handed to the envelope builder
MaxId == 2          \* entities the store can hold
MaxItems == 2       \* items of the data list of a bulk PUT
MaxTag == 2         \* entities the many-to-many field tags can refer to
MaxNoUpdate == 3    \* length of _no_update_fields beyond which no PUT is made
MaxRequests == 3    \* requests in progress at one time
MaxReads == 2       \* reads of field_names by one request
MaxBuilds == 4      \* computations of field_names that are counted

(* Program constants *)

DefaultLimit == 10
DefaultPage == 1

---------------------------------------------------------------------------
(* Python values *)

Max(a, b) == IF a >= b THEN a ELSE b

Digits == {"0", "1"}

PyInt(n) == [t |-> "int", v |-> n, s |-> <<>>]
PyStr(s) == [t |-> "str", v |-> 0, s |-> s]
PyNone == [t |-> "none", v |-> 0, s |-> <<>>]

Strings == UNION {[1..n -> (Digits \cup {"a", "-"})] : n \in 0..MaxStrLen}

RECURSIVE DigitsVal(_, _)
DigitsVal(s, n) ==
    IF n = 0 THEN 0
    ELSE DigitsVal(s, n - 1) * 10 + (IF s[n] = "1" THEN 1 ELSE 0)

\* the number a string of digits denotes
StrVal(s) == DigitsVal(s, Len(s))

\* str.isdigit(): non-empty and every character a digit
isdigit(s) == Len(s) > 0 /\ \A i \in 1..Len(s) : s[i] \in Digits

Returned(n) == [exc |-> "", v |-> n]
Raised(e) == [exc |-> e, v |-> 0]

\* int(x): an int is itself; a str is parsed (optional sign, then digits;
\* anything else raises ValueError); None raises TypeError.
int(x) ==
    CASE x.t = "int" -> Returned(x.v)
      [] x.t = "none" -> Raised("TypeError")
      [] x.t = "str" ->
            IF isdigit(x.s) THEN Returned(StrVal(x.s))
            ELSE IF Len(x.s) > 1 /\ x.s[1] = "-" /\ isdigit(Tail(x.s))
                 THEN Returned(0 - StrVal(Tail(x.s)))
                 ELSE Raised("ValueError")

---------------------------------------------------------------------------
(* serializer/utils.py *)

\* hyperlink(rootcall, path, append): "{rootcall}/{path}/{append}" or append
hyperlink(rootcall, path, append, hyperlink_values) ==
    IF rootcall # "" /\ hyperlink_values
    THEN <<rootcall, path>> \o append
    ELSE append

\* hyperlinkerize(value, rootcall, mview)
hyperlinkerize(value, rootcall, url_path, hyperlink_values) ==
    IF rootcall # "" /\ hyperlink_values
    THEN hyperlink(rootcall, url_path, <<value>>, hyperlink_values)
    ELSE <<value>>

\* lines 63-65: limit = 10 if int(limit) <= 0 else int(limit); except
\* TypeError: limit = 10
LimitOf(limit) ==
    IF int(limit).exc = "TypeError" THEN Returned(DefaultLimit)
    ELSE IF int(limit).exc # "" THEN int(limit)
    ELSE IF int(limit).v <= 0 THEN Returned(DefaultLimit)
    ELSE int(limit)

\* a page count that rounds the quotient up instead
NumberPagesCeil(count, limit) ==
    Max((count + limit - 1) \div limit, 1)

\* line 71
NumberPages(count, limit) ==
    Max(count \div limit, IF count > limit THEN 2 ELSE 1)

PagingFailed(e) ==
    [exc |-> e, rows |-> {}, count |-> 0, number_of_pages |-> 0,
     page_num |-> 0, limit |-> 0, returned |-> 0, offset |-> 0, end |-> 0]

\* line 78: the slice and the dictionary.  offset and end are the
\* paginator's locals, kept in the result so that the slice bounds can be
\* read.  The queryset refuses a negative slice bound.
PaginatorReturn(count, limit, number_pages, page_num, offset, to_return, end) ==
    [exc |-> IF offset < 0 \/ end < 0 THEN "AssertionError" ELSE "",
     rows |-> IF offset < 0 \/ end < 0 THEN {}
              ELSE {i \in 1..count : offset < i /\ i <= end},
     count |-> count, number_of_pages |-> number_pages,
     page_num |-> page_num, limit |-> limit, returned |-> to_return,
     offset |-> offset, end |-> end]

\* The body of paginator, one statement after the other; each operator
\* takes the locals computed so far.
\* line 78: end = to_return * page_num
PaginatorSlice(count, limit, number_pages, page_num, offset, to_return) ==
    PaginatorReturn(count, limit, number_pages, page_num, offset, to_return,
                    to_return * page_num)

\* lines 75-77: to_return = count - offset on the last page, when it is
\* not the first and rows are left; else limit
PaginatorRest(count, limit, number_pages, page_num, offset) ==
    PaginatorSlice(count, limit, number_pages, page_num, offset,
                   IF page_num = number_pages /\ count - offset > 0
                      /\ page_num > 1
                   THEN count - offset
                   ELSE limit)

\* line 73: offset = limit * (page_num - 1)
PaginatorOffset(count, limit, number_pages, page_num) ==
    PaginatorRest(count, limit, number_pages, page_num,
                  limit * (page_num - 1))

\* line 72: page_num = page_num if page_num <= number_pages else number_pages
PaginatorClamp(count, limit, number_pages, page_num) ==
    PaginatorOffset(count, limit, number_pages,
                    IF page_num <= number_pages THEN page_num
                    ELSE number_pages)

\* lines 70-71: count and number_pages, once limit and page_num are ints
PaginatorCount(count, lim, pg) ==
    IF lim.exc # "" THEN PagingFailed(lim.exc)
    ELSE IF pg.exc # "" THEN PagingFailed(pg.exc)
    ELSE PaginatorClamp(count, lim.v, NumberPages(count, lim.v), pg.v)

\* paginator(queryset, limit, page_num); lines 66-69: page_num =
\* int(page_num); except TypeError: page_num = 1
paginator(count, limit, page_num) ==
    PaginatorCount(count, LimitOf(limit),
                   IF int(page_num).exc = "TypeError"
                   THEN Returned(DefaultPage)
                   ELSE int(page_num))

PageLink(rootcall, path, page, limit, hyperlink_values) ==
    hyperlink(rootcall, path,
              <<"_page", ToString(page), "_limit", ToString(limit)>>,
              hyperlink_values)

\* lines 99-140: the sliced queryset (qs), the paginator's result (paging)
\* and the paging block (rslt).
PagingDict(paging, path, rootcall, hyperlink_values) ==
    [exc |-> paging.exc,
     qs |-> paging.rows,
     paging |-> paging,
     rslt |->
        [count |-> Cardinality(paging.rows),
         page_count |-> paging.number_of_pages,
         last_page |-> PageLink(rootcall, path, paging.number_of_pages,
                                paging.limit, hyperlink_values),
         page_number |-> paging.page_num,
         total_entities |-> paging.count,
         number_per_page |-> paging.limit,
         number_returned |-> paging.returned,
         next |-> IF paging.page_num + 1 <= paging.number_of_pages
                  THEN PageLink(rootcall, path, paging.page_num + 1,
                                paging.limit, hyperlink_values)
                  ELSE <<>>,
         previous |-> IF paging.page_num - 1 <= paging.number_of_pages
                         /\ paging.page_num - 1 > 0
                      THEN PageLink(rootcall, path, paging.page_num - 1,
                                    paging.limit, hyperlink_values)
                      ELSE <<>>]]

\* create_paging_dict(qs, path, limit, page, rootcall)
create_paging_dict(count, path, limit, page, rootcall, hyperlink_values) ==
    PagingDict(paginator(count, limit, page), path, rootcall, hyperlink_values)

---------------------------------------------------------------------------
(* serializer/models2dicts.py *)

(* The model classes.  Every class has the scalar field id; the relation   *)
(* fields are those of RelKind.  A schema names the fields of each class,  *)
(* in the order of its field_names.                                        *)

RelKind(ty, f) ==
    CASE <<ty, f>> \in {<<"A", "b">>, <<"A", "b2">>, <<"B", "a">>, <<"B", "c">>}
            -> "one"
      [] <<ty, f>> \in {<<"A", "cs">>, <<"B", "cs">>, <<"C", "bs">>} -> "many"
      [] OTHER -> "scalar"

RelTarget(ty, f) ==
    CASE f \in {"b", "b2", "bs"} -> "B"
      [] f \in {"c", "cs"} -> "C"
      [] OTHER -> "A"

ModelFields(sch, ty) ==
    CASE sch = "mutual" /\ ty = "A" -> <<"id", "b">>
      [] sch = "mutual" /\ ty = "B" -> <<"id", "a">>
      [] sch = "chain" /\ ty = "A" -> <<"id", "b">>
      [] sch = "chain" /\ ty = "B" -> <<"id", "c">>
      [] sch = "siblings" /\ ty = "A" -> <<"id", "b", "b2">>
      [] sch = "siblings" /\ ty = "B" -> <<"id", "cs">>
      [] sch = "loop" /\ ty = "A" -> <<"id", "b">>
      [] sch = "loop" /\ ty = "B" -> <<"id", "c">>
      [] sch = "loop" /\ ty = "C" -> <<"id", "bs">>
      [] sch = "rootmany" /\ ty = "A" -> <<"id", "cs">>
      [] OTHER -> <<"id">>

\* An entity: its class and its number.
Entity(ty, n) == [ty |-> ty, n |-> n]
IdOf(obj) == obj.ty \o ToString(obj.n)

(* field_names: a list (form "list", the fields in base) or a dict (form   *)
(* "dict": the key "base" when has_base, and one key for each relation     *)
(* field in the domain of nested).                                         *)

Range(seq) == {seq[i] : i \in 1..Len(seq)}

\* the values of field_names: the list of the fields, the list of the
\* scalar fields, and dicts with the key base, without it, and with a key
\* for every relation field
FieldNames(sch) ==
    {[form |-> "list", has_base |-> TRUE, base |-> ModelFields(sch, "A"),
      nested |-> <<>>],
     [form |-> "list", has_base |-> TRUE, base |-> <<"id">>, nested |-> <<>>],
     [form |-> "dict", has_base |-> TRUE, base |-> ModelFields(sch, "A"),
      nested |-> <<>>],
     [form |-> "dict", has_base |-> FALSE, base |-> <<>>, nested |-> <<>>],
     [form |-> "dict", has_base |-> TRUE, base |-> ModelFields(sch, "A"),
      nested |-> [f \in {"a", "b", "b2", "c", "cs", "bs"} |->
                    SelectSeq(ModelFields(sch, RelTarget("A", f)),
                              LAMBDA g : g # "id")]]}

\* _get_filter(filters, field, model): filters.get(field, model fields)
GetFilter(sch, field_filter, field, fobj) ==
    IF field \in DOMAIN field_filter.nested
    THEN field_filter.nested[field]
    ELSE ModelFields(sch, fobj.ty)

(* A document is the set of its entries: the path of keys from the top of  *)
(* the document, what is stored there and, for a scalar or a url, its      *)
(* value.  A member of a list is keyed by "#" and its position.            *)

Entry(path, kind, ty, val) ==
    [path |-> path, kind |-> kind, ty |-> ty, val |-> val]

\* The state of a conversion: the two default sets, the document being
\* built and the exception that ended it.
Raise(st, e) == [st EXCEPT !.exc = e]
Put(st, entry) == [st EXCEPT !.doc = @ \cup {entry}]

\* line 175: fos.remove(type(fobj)), a KeyError when it is not in the set
FosRemove(st, ty) ==
    IF st.exc # "" THEN st
    ELSE IF ty \in st.fos THEN [st EXCEPT !.fos = @ \ {ty}]
    ELSE Raise(st, "KeyError")

\* lines 180-183: fkDict["url"] = hyperlinkerize(fkDict[unique_id], ...)
ObjUrl(ctx, fobj, fields, path, st) ==
    IF st.exc # "" \/ ~ctx.hyperlinks THEN st
    ELSE IF "id" \notin Range(fields) THEN Raise(st, "KeyError")
    ELSE Put(st, Entry(path \o <<"url">>, "url", "",
                       hyperlinkerize(IdOf(fobj), ctx.rootcall, fobj.ty,
                                      ctx.hyperlinks)))

RECURSIVE ObjFields(_, _, _, _, _, _, _)
RECURSIVE RelMembers(_, _, _, _, _, _, _)

\* _foreign_obj_to_dict(base_type, fobj, depth, field_filter, field,
\* rootcall, max_depth, rels, fos) building the dictionary at path
ForeignObjToDict(ctx, fobj, depth, field, path, st) ==
    IF ctx.field_filter.form = "list" THEN Raise(st, "AttributeError")
    ELSE ObjUrl(ctx, fobj,
                GetFilter(ctx.schema, ctx.field_filter, field, fobj), path,
                ObjFields(ctx, fobj, depth,
                          GetFilter(ctx.schema, ctx.field_filter, field, fobj),
                          1, path, st))

\* lines 202-212: for fk in frel.all()
RelMembers(ctx, members, depth, f, path, i, st) ==
    IF st.exc # "" \/ i > Len(members) THEN st
    ELSE RelMembers(ctx, members, depth, f, path, i + 1,
            IF ctx.max_depth >= depth
            THEN ForeignObjToDict(ctx, members[i], depth + 1, f,
                    path \o <<"#" \o ToString(i)>>,
                    Put(st, Entry(path \o <<"#" \o ToString(i)>>, "obj",
                                  members[i].ty, "")))
            ELSE st)

\* lines 147-179: for f in fields.  A to-many field (line 153) is
\* expanded when the depth allows and the class of its manager is not in
\* rels; _foreign_rel_to_dict (lines 186-213) adds that class to rels (line
\* 200) and builds the list of frel.all().  A to-one field (lines 163-164)
\* is expanded when the depth allows and type(fo) is neither
\* type(base_type) nor in fos; type(fobj) is added to fos (line 165) and
\* removed after the call (line 175).  Any other field is a scalar.
ObjFields(ctx, fobj, depth, fields, i, path, st) ==
    IF st.exc # "" \/ i > Len(fields) THEN st
    ELSE ObjFields(ctx, fobj, depth, fields, i + 1, path,
            CASE RelKind(fobj.ty, fields[i]) = "many" ->
                    IF ctx.max_depth >= depth
                       /\ <<fobj.ty, fields[i]>> \notin st.rels
                    THEN RelMembers(ctx,
                            [k \in 1..RelSize |->
                                Entity(RelTarget(fobj.ty, fields[i]), k)],
                            depth + 1, fields[i], path \o <<fields[i]>>, 1,
                            Put([st EXCEPT
                                    !.rels = @ \cup {<<fobj.ty, fields[i]>>}],
                                Entry(path \o <<fields[i]>>, "list", "", "")))
                    ELSE st
              [] RelKind(fobj.ty, fields[i]) = "one" ->
                    IF ctx.max_depth >= depth
                       /\ RelTarget(fobj.ty, fields[i]) #
                            (CASE ctx.base = "none" -> "NoneType"
                               [] ctx.base = "class" -> "ModelBase"
                               [] ctx.base = "instance" -> "A")
                       /\ RelTarget(fobj.ty, fields[i]) \notin st.fos
                    THEN FosRemove(
                            ForeignObjToDict(ctx,
                                Entity(RelTarget(fobj.ty, fields[i]), fobj.n),
                                depth + 1, fields[i], path \o <<fields[i]>>,
                                Put([st EXCEPT !.fos = @ \cup {fobj.ty}],
                                    Entry(path \o <<fields[i]>>, "obj",
                                          RelTarget(fobj.ty, fields[i]), ""))),
                            fobj.ty)
                    ELSE st
              [] OTHER ->
                    Put(st, Entry(path \o <<fields[i]>>, "scalar", "",
                                  IdOf(fobj))))

RECURSIVE RootFields(_, _, _, _, _)
\* lines 85-109: for f in filt, one field of the entity m at a time.  The
\* call for a to-many field passes five of _foreign_rel_to_dict's six
\* required arguments; a to-one field is expanded whatever the depth.
RootFields(ctx, m, filt, i, st) ==
    IF st.exc # "" \/ i > Len(filt) THEN st
    ELSE RootFields(ctx, m, filt, i + 1,
            CASE RelKind(m.ty, filt[i]) = "many" -> Raise(st, "TypeError")
              [] RelKind(m.ty, filt[i]) = "one" ->
                    ForeignObjToDict(ctx,
                        Entity(RelTarget(m.ty, filt[i]), m.n), 1, filt[i],
                        <<filt[i]>>,
                        Put(st, Entry(<<filt[i]>>, "obj",
                                      RelTarget(m.ty, filt[i]), "")))
              [] OTHER ->
                    Put(st, Entry(<<filt[i]>>, "scalar", "", IdOf(m))))

\* What convert_to_dicts has done so far: the documents and the two sets.
Converted(vals, r, f, e) == [vals |-> vals, rels |-> r, fos |-> f, exc |-> e]

NextRoot(acc, st) ==
    Converted(Append(acc.vals, st.doc), st.rels, st.fos, st.exc)

RECURSIVE Roots(_, _, _, _, _)
\* line 82: for m in qs
Roots(ctx, n, filt, i, acc) ==
    IF acc.exc # "" \/ i > n THEN acc
    ELSE Roots(ctx, n, filt, i + 1,
               NextRoot(acc, RootFields(ctx, Entity("A", i), filt, 1,
                                        [rels |-> acc.rels, fos |-> acc.fos,
                                         doc |-> {}, exc |-> ""])))

\* lines 78-81: filt.  The default of field_names.get("base", ...) is
\* evaluated first: it reads base_type._meta, which None does not have; and
\* field_names of a class is the property itself, which cannot be iterated.
Filt(ctx) ==
    IF ctx.field_filter.form = "list" THEN Returned(ctx.field_filter.base)
    ELSE IF ctx.base = "none" THEN Raised("AttributeError")
    ELSE IF ctx.field_filter.has_base THEN Returned(ctx.field_filter.base)
    ELSE IF ctx.base = "class" THEN Raised("TypeError")
    ELSE Returned(ModelFields(ctx.schema, "A"))

\* convert_to_dicts(qs, field_names, base_type, depth, rootcall) for the
\* queryset of the first n entities of class A, with the default sets of
\* _foreign_obj_to_dict holding r and f
convert_to_dicts(ctx, n, r, f) ==
    IF Filt(ctx).exc = "AttributeError"
    THEN Converted(<<>>, r, f, Filt(ctx).exc)
    ELSE IF Filt(ctx).exc # "" /\ n > 0
    THEN Converted(<<>>, r, f, Filt(ctx).exc)
    ELSE Roots(ctx, n, Filt(ctx).v, 1, Converted(<<>>, r, f, ""))

---------------------------------------------------------------------------
(* The serializer as a state machine: the process starts with its model    *)
(* classes and settings and with empty default sets; convert_to_dicts is   *)
(* called, computed, possibly called again with the same arguments, and    *)
(* returns.                                                                *)

\* ViewWrapper.dispatch, lines 98-101: rootcall is scheme://host when
\* HYPERLINK_VALUES is set
RootCallOf(hyperlink_values) == IF hyperlink_values THEN "http://host" ELSE ""

NoSerReq ==
    [n |-> 0,
     field_names |-> [form |-> "list", has_base |-> TRUE,
                      base |-> ModelFields("mutual", "A"), nested |-> <<>>],
     base_type |-> "none", depth |-> 0, rels |-> {}, fos |-> {}]
NoSerOut == Converted(<<>>, {}, {}, "-")

SerInit ==
    /\ schema \in {"mutual", "chain", "siblings", "loop", "rootmany"}
    /\ hyperlinks \in BOOLEAN
    /\ rels = {}
    /\ fos = {}
    /\ serPc = "idle"
    /\ serReq = NoSerReq
    /\ serOut = NoSerOut
    /\ serPrev = NoSerOut

SerCall ==
    /\ serPc = "idle"
    /\ \E n \in 0..MaxRoots, fn \in FieldNames(schema),
          b \in {"none", "class", "instance"},
          d \in 0..MaxDepth :
          serReq' = [n |-> n, field_names |-> fn, base_type |-> b, depth |-> d,
                     rels |-> rels, fos |-> fos]
    /\ serPc' = "called"
    /\ UNCHANGED <<schema, hyperlinks, rels, fos, serOut, serPrev, pageVars,
                   viewVars, envVars, getVars, putVars, schVars>>

Converting ==
    /\ serOut' = convert_to_dicts(
                    [schema |-> schema, base |-> serReq.base_type,
                     field_filter |-> serReq.field_names,
                     rootcall |-> RootCallOf(hyperlinks),
                     hyperlinks |-> hyperlinks, max_depth |-> serReq.depth],
                    serReq.n, rels, fos)
    /\ rels' = serOut'.rels
    /\ fos' = serOut'.fos
    /\ serPc' = "done"
    /\ UNCHANGED <<schema, hyperlinks, pageVars, viewVars, envVars, getVars,
                   putVars, schVars>>

ConvertToDicts ==
    /\ serPc = "called"
    /\ Converting
    /\ UNCHANGED <<serReq, serPrev>>

ConvertAgain ==
    /\ serPc = "done"
    /\ serPrev = NoSerOut
    /\ serPrev' = serOut
    /\ serReq' = [serReq EXCEPT !.rels = rels, !.fos = fos]
    /\ Converting

SerReturn ==
    /\ serPc = "done"
    /\ serPc' = "idle"
    /\ serReq' = NoSerReq
    /\ serOut' = NoSerOut
    /\ serPrev' = NoSerOut
    /\ UNCHANGED <<schema, hyperlinks, rels, fos, pageVars, viewVars, envVars,
                   getVars, putVars, schVars>>

SerNext == SerCall \/ ConvertToDicts \/ ConvertAgain \/ SerReturn

SerIdle ==
    /\ schema = "mutual"
    /\ hyperlinks = TRUE
    /\ rels = {}
    /\ fos = {}
    /\ serPc = "idle"
    /\ serReq = NoSerReq
    /\ serOut = NoSerOut
    /\ serPrev = NoSerOut


---------------------------------------------------------------------------
(* The pagination engine as a state machine: rows come and go in the       *)
(* queryset, a call arrives with its arguments, is computed, and returns.  *)

PageInit ==
    /\ rowCount = 0
    /\ pagePc = "idle"
    /\ pageReq = [limit |-> PyNone, page |-> PyNone, rootcall |-> ""]
    /\ pageOut = (PagingDict(PagingFailed("-"), "", "", FALSE))

AddRow ==
    /\ pagePc = "idle"
    /\ rowCount < MaxRows
    /\ rowCount' = rowCount + 1
    /\ UNCHANGED <<pagePc, pageReq, pageOut, serVars, viewVars, envVars,
                   getVars, putVars, schVars>>

DeleteRow ==
    /\ pagePc = "idle"
    /\ rowCount > 0
    /\ rowCount' = rowCount - 1
    /\ UNCHANGED <<pagePc, pageReq, pageOut, serVars, viewVars, envVars,
                   getVars, putVars, schVars>>

PageCall ==
    /\ pagePc = "idle"
    /\ \E l \in {PyInt(n) : n \in -1..MaxIntArg}
                \cup {PyStr(s) : s \in Strings} \cup {PyNone},
          p \in {PyInt(n) : n \in -1..MaxPageArg}
                \cup {PyStr(s) : s \in Strings} \cup {PyNone},
          r \in {"", "http://host"} :
          pageReq' = [limit |-> l, page |-> p, rootcall |-> r]
    /\ pagePc' = "called"
    /\ UNCHANGED <<rowCount, pageOut, serVars, viewVars, envVars, getVars,
                   putVars, schVars>>

CreatePagingDict ==
    /\ pagePc = "called"
    /\ pageOut' = create_paging_dict(rowCount, "app/model", pageReq.limit,
                                     pageReq.page, pageReq.rootcall, TRUE)
    /\ pagePc' = "done"
    /\ UNCHANGED <<rowCount, pageReq, serVars, viewVars, envVars, getVars,
                   putVars, schVars>>

PageReturn ==
    /\ pagePc = "done"
    /\ pagePc' = "idle"
    /\ pageReq' = [limit |-> PyNone, page |-> PyNone, rootcall |-> ""]
    /\ pageOut' = (PagingDict(PagingFailed("-"), "", "", FALSE))
    /\ UNCHANGED <<rowCount, serVars, viewVars, envVars, getVars, putVars,
                   schVars>>

PageNext == AddRow \/ DeleteRow \/ PageCall \/ CreatePagingDict \/ PageReturn

---------------------------------------------------------------------------
(* mview/modelviews.py: ViewWrapper.dispatch *)

\* line 69: allowed_methods
allowed_methods == {"get", "post", "put", "delete", "head", "options"}

(* What the model's _perms holds for the method of the request: "none",   *)
(* no _perms or an empty one; "other", entries for other methods only;    *)
(* "keyed", a level name for this method.  The user is anonymous, or is   *)
(* authenticated with no level, with a level below the one named, or with *)
(* a level that reaches it.                                               *)

\* mview/utils.py check_perms(request, _perms): the exception it raises
check_perms(user, perms) ==
    IF perms = "keyed" /\ user = "anonymous" THEN "AuthenticationError"
    ELSE IF perms = "keyed" /\ user = "low" THEN "AuthorizationError"
    ELSE ""

\* lines 92-94: int(_depth) if _depth is not None and _depth.isdigit() else 0
DepthParam(depth) ==
    IF depth.t = "str" /\ isdigit(depth.s) THEN StrVal(depth.s) ELSE 0

\* mviews/utils.py read(request): the payload, or a ValueError
read(body) == IF body = "garbage" THEN Raised("ValueError") ELSE Returned(0)

\* mviews/utils.py lines 17-27: err hands JsonResponse the string that dumps
\* made; JsonResponse takes a dict only, unless safe=False, and raises
err(msg, status) == Raised("TypeError")

\* mviews/errors.py: the status of an authentication error and of an
\* authorization error
auth_status(e) == IF e = "AuthenticationError" THEN 401 ELSE 403

\* What dispatch ends with: the return statement reached (resp), what that
\* statement evaluates to (the exception raised, or the status of the error
\* response), and the attributes set on the view
Answer(resp, e, fields, sdepth, rootcall) ==
    [resp |-> resp, exc |-> e.exc, status |-> e.v, fields |-> fields,
     sdepth |-> sdepth, rootcall |-> rootcall]

\* dispatch(self, request, *args, **kwargs)
dispatch(req) ==
    IF req.method \notin allowed_methods
    THEN Answer("MethodNotAllowed", err("MethodNotAllowed", 405), <<>>, 0, "")
    ELSE IF check_perms(req.user, req.perms) # ""
    THEN Answer(check_perms(req.user, req.perms),
                err(check_perms(req.user, req.perms),
                    auth_status(check_perms(req.user, req.perms))),
                <<>>, 0, "")
    ELSE Answer(IF read(req.body).exc # "" THEN "BadRequest" ELSE "handler",
                IF read(req.body).exc # "" THEN err(read(req.body).exc, 400)
                ELSE Returned(0),
                SelectSeq(req.fields, LAMBDA f : f \in {"id", "name"}),
                IF DepthParam(req.depth) = 0
                   /\ (req.expand_attr \/ req.expand_param)
                THEN 1 ELSE DepthParam(req.depth),
                RootCallOf(req.hyperlink_values))

ViewInit ==
    /\ viewPc = "idle"
    /\ viewReq = [method |-> "get", user |-> "anonymous", perms |-> "none",
                  depth |-> PyNone, expand_param |-> FALSE,
                  expand_attr |-> FALSE, fields |-> <<>>,
                  hyperlink_values |-> FALSE, body |-> "empty"]
    /\ viewOut = Answer("-", Returned(0), <<>>, 0, "")

ViewRequest ==
    /\ viewPc = "idle"
    /\ \E m \in {"get", "post", "put", "delete", "head", "options", "patch"},
          u \in {"anonymous", "nolevel", "low", "high"},
          p \in {"none", "other", "keyed"},
          d \in {PyNone} \cup {PyStr(s) : s \in Strings},
          ep \in BOOLEAN, ea \in BOOLEAN,
          f \in {<<>>, <<"id">>, <<"id", "zz">>},
          hv \in BOOLEAN, b \in {"empty", "json", "garbage"} :
          viewReq' = [method |-> m, user |-> u, perms |-> p, depth |-> d,
                      expand_param |-> ep, expand_attr |-> ea, fields |-> f,
                      hyperlink_values |-> hv, body |-> b]
    /\ viewPc' = "requested"
    /\ UNCHANGED <<viewOut, pageVars, serVars, envVars, getVars, putVars,
                   schVars>>

Dispatch ==
    /\ viewPc = "requested"
    /\ viewOut' = dispatch(viewReq)
    /\ viewPc' = "dispatched"
    /\ UNCHANGED <<viewReq, pageVars, serVars, envVars, getVars, putVars,
                   schVars>>

ViewDone ==
    /\ viewPc = "dispatched"
    /\ viewPc' = "idle"
    /\ viewReq' = [method |-> "get", user |-> "anonymous", perms |-> "none",
                   depth |-> PyNone, expand_param |-> FALSE,
                   expand_attr |-> FALSE, fields |-> <<>>,
                   hyperlink_values |-> FALSE, body |-> "empty"]
    /\ viewOut' = Answer("-", Returned(0), <<>>, 0, "")
    /\ UNCHANGED <<pageVars, serVars, envVars, getVars, putVars, schVars>>

ViewNext == ViewRequest \/ Dispatch \/ ViewDone

---------------------------------------------------------------------------
(* serializer/serializers.py: _serialize_json *)

\* line 29: paginate = mview.params.get('_page', getattr(mview,
\* '__paginate', 0)), as a truth value
Paginate(req) ==
    IF req.page.t = "str" THEN Len(req.page.s) > 0 ELSE req.paginate_attr

Envelope(kind, count, data, paged, urls, extra) ==
    [exc |-> "", kind |-> kind, count |-> count, data |-> data,
     paged |-> paged, urls |-> urls, extra |-> extra]
EnvRaised(e) ==
    [exc |-> e, kind |-> "none", count |-> 0, data |-> {}, paged |-> FALSE,
     urls |-> {}, extra |-> FALSE]

\* lines 51-61: with expand, c2d(mview, qs, field_names, mview.sdepth,
\* rootcall) hands the view to convert_to_dicts as its queryset, and a view
\* cannot be iterated
EnvData(req, count, data, paged) ==
    IF req.expand = "true" THEN EnvRaised("TypeError")
    ELSE IF req.hyperlink_values /\ ~req.fields /\ data # {} /\ ~req.has_id
    THEN EnvRaised("KeyError")
    ELSE Envelope(IF ~(req.n > 1 \/ Paginate(req) \/ ~req.return_singles
                       \/ req.no_singles)
                     /\ data # {}
                  THEN "bare" ELSE "wrapper",
                  count, data, paged,
                  IF req.hyperlink_values /\ ~req.fields /\ data # {}
                  THEN {<<i, hyperlinkerize(ToString(i), req.rootcall, "path",
                                            req.hyperlink_values)>> :
                            i \in data}
                  ELSE {},
                  req.extra)

\* lines 41-50
EnvPaged(req, pd) ==
    IF pd.exc # "" THEN EnvRaised(pd.exc)
    ELSE EnvData(req, pd.rslt.count, pd.qs, TRUE)

\* _serialize_json(mview, qs, rootcall, extra) for a queryset of n rows
serialize_json(req) ==
    IF req.expand = "missing" THEN EnvRaised("AttributeError")
    ELSE IF Paginate(req)
    THEN EnvPaged(req, create_paging_dict(req.n, "path",
                           IF req.limit.t = "none" THEN PyInt(DefaultLimit)
                           ELSE req.limit,
                           IF req.page.t = "none" THEN PyInt(DefaultPage)
                           ELSE req.page,
                           req.rootcall, req.hyperlink_values))
    ELSE EnvData(req, req.n, 1..req.n, FALSE)

EnvInit ==
    /\ envPc = "idle"
    /\ envReq = [n |-> 0, page |-> PyNone, limit |-> PyNone,
                 paginate_attr |-> FALSE, return_singles |-> TRUE,
                 no_singles |-> FALSE, expand |-> "missing", fields |-> FALSE,
                 has_id |-> TRUE, hyperlink_values |-> FALSE, rootcall |-> "",
                 extra |-> FALSE]
    /\ envOut = EnvRaised("-")

EnvCall ==
    /\ envPc = "idle"
    /\ \E n \in 0..MaxMatch, pg \in {PyNone} \cup {PyStr(s) : s \in Strings},
          li \in {PyNone, PyStr(<<"1">>), PyStr(<<"1", "0">>)},
          pa \in BOOLEAN, rs \in BOOLEAN, ns \in BOOLEAN,
          ex \in {"missing", "false", "true"},
          f \in BOOLEAN, id \in BOOLEAN, hv \in BOOLEAN,
          rc \in {"", "http://host"},
          xt \in BOOLEAN :
          envReq' = [n |-> n, page |-> pg, limit |-> li, paginate_attr |-> pa,
                     return_singles |-> rs, no_singles |-> ns, expand |-> ex,
                     fields |-> f, has_id |-> id, hyperlink_values |-> hv,
                     rootcall |-> rc, extra |-> xt]
    /\ envPc' = "called"
    /\ UNCHANGED <<envOut, pageVars, serVars, viewVars, getVars, putVars,
                   schVars>>

SerializeJson ==
    /\ envPc = "called"
    /\ envOut' = serialize_json(envReq)
    /\ envPc' = "done"
    /\ UNCHANGED <<envReq, pageVars, serVars, viewVars, getVars, putVars,
                   schVars>>

EnvReturn ==
    /\ envPc = "done"
    /\ envPc' = "idle"
    /\ envReq' = [n |-> 0, page |-> PyNone, limit |-> PyNone,
                  paginate_attr |-> FALSE, return_singles |-> TRUE,
                  no_singles |-> FALSE, expand |-> "missing", fields |-> FALSE,
                  has_id |-> TRUE, hyperlink_values |-> FALSE, rootcall |-> "",
                  extra |-> FALSE]
    /\ envOut' = EnvRaised("-")
    /\ UNCHANGED <<pageVars, serVars, viewVars, getVars, putVars, schVars>>

EnvNext == EnvCall \/ SerializeJson \/ EnvReturn

---------------------------------------------------------------------------
(* mview/modelviews.py: BaseModelAsView, the GET handler *)

(* A string of the path or of the query string is the sequence of its      *)
(* atoms: words and the separators "/", ",", " " and "+".  A part of a     *)
(* split string is again such a sequence.                                  *)

RECURSIVE SplitFrom(_, _, _, _, _)
SplitFrom(s, sep, i, cur, acc) ==
    IF i > Len(s) THEN Append(acc, cur)
    ELSE IF s[i] = sep THEN SplitFrom(s, sep, i + 1, <<>>, Append(acc, cur))
    ELSE SplitFrom(s, sep, i + 1, Append(cur, s[i]), acc)

\* str.split(sep)
split(s, sep) == SplitFrom(s, sep, 1, <<>>, <<>>)

RECURSIVE lstrip(_, _)
lstrip(s, c) == IF Len(s) > 0 /\ s[1] = c THEN lstrip(Tail(s), c) ELSE s

RECURSIVE rstrip(_, _)
rstrip(s, c) ==
    IF Len(s) > 0 /\ s[Len(s)] = c THEN rstrip(SubSeq(s, 1, Len(s) - 1), c)
    ELSE s

(* The model: the primary key id and the field name.  The store holds     *)
(* entities with distinct ids and answers a query in the order of the ids. *)
AllFieldNames == <<"id", "name">>
Names == {"x", "y"}

\* int(part) as the store does it for the value of an integer field
IsIdPart(part) == Len(part) = 1 /\ part[1] \in {"1", "2", "3", "9"}
IdOfPart(part) ==
    CASE part[1] = "1" -> 1
      [] part[1] = "2" -> 2
      [] part[1] = "3" -> 3
      [] OTHER -> 9

\* The path argument of the handler: none is passed ("noarg"), None is
\* passed ("none"), or a string is
PathArg(kind, s) == [kind |-> kind, s |-> s]

\* a parameter of the query string: absent, or present with its string
Absent == [present |-> FALSE, s |-> <<>>]
Present(s) == [present |-> TRUE, s |-> s]

\* lines 245-251: field_names, the public_fields when there are some
field_names(public_fields) ==
    IF Len(public_fields) > 0 THEN public_fields ELSE AllFieldNames

\* lines 253-267: _get_ids_from_args(*args)
IdsFromPath(path) ==
    IF path.kind = "str" /\ Len(path.s) > 0
    THEN split(rstrip(lstrip(path.s, "/"), "/"), "/")
    ELSE <<>>

get_ids_from_args(path, ids) ==
    IF path.kind = "noarg" THEN <<>>
    ELSE IF ids.present THEN IdsFromPath(path) \o split(ids.s, ",")
    ELSE IdsFromPath(path)

\* A queryset: the ids of its rows, or the exception that making it raised
Qs(rows) == [exc |-> "", rows |-> rows]

\* filter(id = value) and filter(id__in = values): a value that is not a
\* number is a ValueError
FilterIds(store, args) ==
    IF \E i \in 1..Len(args) : ~IsIdPart(args[i])
    THEN [exc |-> "ValueError", rows |-> {}]
    ELSE Qs({e \in store : \E i \in 1..Len(args) : e.id = IdOfPart(args[i])})

\* lines 289-294; filter_by_pks (lines 274-281) looks for the primary key
\* among field_names, which is id, and filters by nothing without it
FilterArgs(store, fields, args) ==
    IF Len(args) = 0 THEN Qs(store)
    ELSE IF "id" \in Range(fields) THEN FilterIds(store, args)
    ELSE Qs(store)

\* a reqDict of every parameter of the request, field name or not
ReqDictAll(fields, params) ==
    params

\* lines 295-297: reqDict, the parameters that are field names
ReqDict(fields, params) ==
    [f \in Range(fields) \cap DOMAIN params |-> params[f]]

\* filter(**reqDict): a keyword that is no field of the model is a FieldError
FilterFields(filtered, reqDict) ==
    IF filtered.exc # "" THEN filtered
    ELSE IF \E f \in DOMAIN reqDict : f \notin Range(AllFieldNames)
    THEN [exc |-> "FieldError", rows |-> {}]
    ELSE Qs({e \in filtered.rows :
                \A f \in DOMAIN reqDict : e[f] = reqDict[f]})

\* lines 269-298: _get_qs(*args)
get_qs(store, req) ==
    FilterFields(FilterArgs(store, field_names(req.public_fields),
                            get_ids_from_args(req.path, req.ids)),
                 ReqDict(field_names(req.public_fields), req.params))

\* lines 329-335: one token of _aggs: split at " ", else at "+"; more or
\* less than two parts at "+" is a ValueError
AggParts(agg) ==
    IF Len(split(agg, " ")) = 2 THEN Returned(split(agg, " "))
    ELSE IF Len(split(agg, "+")) = 2 THEN Returned(split(agg, "+"))
    ELSE Raised("ValueError")

Aggs(exc, names) == [exc |-> exc, names |-> names]

RECURSIVE Aggers(_, _, _, _)
\* lines 329-341: for agg in aggs
Aggers(aggs, fields, i, acc) ==
    IF acc.exc # "" \/ i > Len(aggs) THEN acc
    ELSE IF AggParts(aggs[i]).exc # ""
    THEN Aggs(AggParts(aggs[i]).exc, acc.names)
    ELSE Aggers(aggs, fields, i + 1,
                IF /\ Len(AggParts(aggs[i]).v[1]) = 1
                   /\ AggParts(aggs[i]).v[1][1] \in {"max", "min", "avg"}
                   /\ Len(AggParts(aggs[i]).v[2]) = 1
                   /\ AggParts(aggs[i]).v[2][1] \in Range(fields)
                THEN Aggs("", acc.names
                              \cup {<<AggParts(aggs[i]).v[1][1], "_",
                                      AggParts(aggs[i]).v[2][1]>>})
                ELSE acc)

\* What do_get returns: an error response ("err"), or the rows ("qs") with
\* the aggregates annotated on them; or the exception it raises
Got(exc, kind, rows, aggs) ==
    [exc |-> exc, kind |-> kind, rows |-> rows, aggs |-> aggs]



\* lines 321-341: _get_aggs(qs), the names annotated on the rows
get_aggs(req) ==
    IF ~req.aggs.present THEN Aggs("", {})
    ELSE Aggers(split(req.aggs.s, ","), field_names(req.public_fields), 1,
                Aggs("", {}))

\* lines 358-365; _expand and _aggs_only's only() leave the rows as they
\* are, and qs[0] is the row of the least id
DoGetQs(req, qs) ==
    IF qs.exc = "ValueError"
    THEN IF err("ValueError", 500).exc # ""
         THEN Got(err("ValueError", 500).exc, "", {}, {})
         ELSE Got("", "err", {}, {})
    ELSE IF qs.exc # "" THEN Got(qs.exc, "", {}, {})
    ELSE IF get_aggs(req).exc # "" THEN Got(get_aggs(req).exc, "", {}, {})
    ELSE IF ~req.latest THEN Got("", "qs", qs.rows, get_aggs(req).names)
    ELSE IF qs.rows = {} THEN Got("IndexError", "", {}, {})
    ELSE Got("", "qs",
             {CHOOSE e \in qs.rows : \A o \in qs.rows : e.id <= o.id},
             get_aggs(req).names)

\* do_get(request, *args)
do_get(store, req) == DoGetQs(req, get_qs(store, req))

\* serializer.py lines 48-60: serialize calls _serialize_json(qs,
\* field_names, unique_id=..., depth=..., paginate=..., page=..., ...),
\* whose parameters are (mview, qs, rootcall, extra)
serialize(got, extra) == Raised("TypeError")

\* What get answers: the exception that ended it, whether the rows and the
\* extra block are in the answer
Response(exc, rows, extra) == [exc |-> exc, rows |-> rows, extra |-> extra]

\* mview/utils.py lines 28-61: response(mview, qs, headers, extra)
response(got, extra) ==
    IF got.exc # "" THEN Response(got.exc, {}, FALSE)
    ELSE IF serialize(got, extra).exc # ""
    THEN Response(serialize(got, extra).exc, {}, FALSE)
    ELSE Response("", got.rows, extra)

\* line 409: get answers response(self, self.do_get(request, *args)), with
\* no extra
get(store, req) == response(do_get(store, req), FALSE)

NoGetReq ==
    [path |-> PathArg("noarg", <<>>), ids |-> Absent, params |-> <<>>,
     aggs |-> Absent, aggs_only |-> FALSE, latest |-> FALSE,
     public_fields |-> <<>>]
NoGetOut == [got |-> Got("-", "", {}, {}), resp |-> Response("-", {}, FALSE)]

\* no two entities of the store have the same id
Stores ==
    {st \in SUBSET [id : 1..MaxId, name : Names] :
        \A e, o \in st : e.id = o.id => e = o}

GetInit ==
    /\ getStore \in Stores
    /\ getPc = "idle"
    /\ getReq = NoGetReq
    /\ getOut = NoGetOut

GetIdle ==
    /\ getStore = {}
    /\ getPc = "idle"
    /\ getReq = NoGetReq
    /\ getOut = NoGetOut

GetRequest ==
    /\ getPc = "idle"
    /\ \E pa \in {PathArg("noarg", <<>>), PathArg("none", <<>>),
                  PathArg("str", <<>>), PathArg("str", <<"1">>),
                  PathArg("str", <<"1", "/", "2", "/">>),
                  PathArg("str", <<"x", "/">>)},
          ids \in {Absent, Present(<<"2">>), Present(<<"2", ",", "3">>),
                   Present(<<"9">>), Present(<<>>)},
          ps \in UNION {[ks -> Names] : ks \in SUBSET {"name", "zz"}},
          ag \in {Absent, Present(<<"max", " ", "name">>),
                  Present(<<"avg", "+", "id">>),
                  Present(<<"min", "+", "id", ",", "max", " ", "id">>),
                  Present(<<"sum", " ", "name">>),
                  Present(<<"max", " ", "zz">>), Present(<<"max">>),
                  Present(<<"max", " ", "id", " ", "name">>),
                  Present(<<"max", " ", "id", ",", "min">>)},
          ao \in BOOLEAN, la \in BOOLEAN,
          pf \in {<<>>, <<"id", "name">>, <<"name">>, <<"id">>} :
          getReq' = [path |-> pa, ids |-> ids, params |-> ps, aggs |-> ag,
                     aggs_only |-> ao, latest |-> la, public_fields |-> pf]
    /\ getPc' = "requested"
    /\ UNCHANGED <<getStore, getOut, pageVars, serVars, viewVars, envVars,
                   putVars, schVars>>

Get ==
    /\ getPc = "requested"
    /\ getOut' = [got |-> do_get(getStore, getReq),
                  resp |-> get(getStore, getReq)]
    /\ getPc' = "answered"
    /\ UNCHANGED <<getStore, getReq, pageVars, serVars, viewVars, envVars,
                   putVars, schVars>>

GetDone ==
    /\ getPc = "answered"
    /\ getPc' = "idle"
    /\ getReq' = NoGetReq
    /\ getOut' = NoGetOut
    /\ UNCHANGED <<getStore, pageVars, serVars, viewVars, envVars, putVars,
                   schVars>>

GetNext == GetRequest \/ Get \/ GetDone

---------------------------------------------------------------------------
(* mview/modelviews.py: BaseModelAsView, the PUT, DELETE and OPTIONS       *)
(* handlers.  The model has one many-to-many field, tags; the relation     *)
(* holds, for the id of an entity, the ids of its tags.                    *)

(* The attribute _no_update_fields of the view class: not declared, None,  *)
(* or a list.  The list is one object: who appends to it changes the class. *)
AList(l) == [kind |-> "list", l |-> l]

\* the keys of a dict that are not in a list
Strip(data, to_remove) ==
    [k \in DOMAIN data \ Range(to_remove) |-> data[k]]

\* the id of an entity after update(**data) on the rows
NewId(e, rows, data) ==
    IF e \in rows /\ "id" \in DOMAIN data THEN data["id"] ELSE e.id

\* line 510: qs.update(**data); two rows with one primary key are an
\* IntegrityError and the statement changes nothing
Update(store, rows, data) ==
    IF \E e, o \in store : e # o /\ NewId(e, rows, data) = NewId(o, rows, data)
    THEN [exc |-> "IntegrityError", store |-> store]
    ELSE [exc |-> "",
          store |-> (store \ rows)
                    \cup {[f \in DOMAIN e |->
                             IF f \in DOMAIN data THEN data[f] ELSE e[f]] :
                          e \in rows}]

\* The state a PUT works on: the exception raised, the store, the list
\* to_remove (the list of the class when the class declares one) and the
\* relation tags
Work(exc, store, to_remove, rel) ==
    [exc |-> exc, store |-> store, to_remove |-> to_remove, rel |-> rel]

\* A queryset is not evaluated when it is made: it is the filter of a
\* lookup, filter(field = value), or that of _get_qs for a request.  Its
\* rows are those of the store at the time it is evaluated.
Rows(store, qs) ==
    IF qs.kind = "lookup" THEN {e \in store : e[qs.field] = qs.value}
    ELSE get_qs(store, qs.req).rows

\* lines 511-519: the many-to-many fields named in self.data, the body of
\* the request.  The block of tags in a body is {"add": [...], "delete":
\* [...]}: add and delete are <<>> when the key is missing and <<ids>> for
\* a list of ids.  qs[0] evaluates the queryset again, on the store as
\* update left it; its first row is the one of the least id.
UpdateM2ms(qs, block, w) ==
    IF w.exc # "" \/ ~block.present
       \/ (block.add = <<>> /\ block.delete = <<>>)
    THEN w
    ELSE IF Rows(w.store, qs) = {}
    THEN Work("IndexError", w.store, w.to_remove, w.rel)
    ELSE Work("", w.store, w.to_remove,
              [w.rel EXCEPT
                  ![(CHOOSE e \in Rows(w.store, qs) :
                        \A o \in Rows(w.store, qs) : e.id <= o.id).id] =
                      (IF block.add = <<>> THEN @ ELSE @ \cup block.add[1])
                      \ (IF block.delete = <<>> THEN {} ELSE block.delete[1])])

\* lines 501-519: _update_entity(qs, data, to_remove); self.data["data"] is
\* the dict data["data"] itself in a single update and the list of the items
\* in a bulk update, in which no name of to_remove is found
update_entity(w, qs, data, bulk, block) ==
    UpdateM2ms(qs, block,
        IF w.to_remove.kind = "none"
        THEN Work(Update(w.store, Rows(w.store, qs), data).exc,
                  Update(w.store, Rows(w.store, qs), data).store,
                  w.to_remove, w.rel)
        ELSE Work(Update(w.store, Rows(w.store, qs),
                         IF bulk THEN data
                         ELSE Strip(data, Append(w.to_remove.l, "id"))).exc,
                  Update(w.store, Rows(w.store, qs),
                         IF bulk THEN data
                         ELSE Strip(data, Append(w.to_remove.l, "id"))).store,
                  AList(Append(w.to_remove.l, "id")), w.rel))

RECURSIVE BulkFrom(_, _, _, _, _)
\* lines 539-547: for i, d in enumerate(self.data['data'])
BulkFrom(w, items, qslookup, block, i) ==
    IF w.exc # "" \/ i > Len(items) THEN w
    ELSE IF qslookup \notin DOMAIN items[i]
    THEN Work("KeyError", w.store, w.to_remove, w.rel)
    ELSE BulkFrom(update_entity(w,
                      [kind |-> "lookup", field |-> qslookup,
                       value |-> items[i][qslookup]],
                      items[i], TRUE, block),
                  items, qslookup, block, i + 1)

\* line 538: with transaction.atomic(), an exception rolls the store and
\* the relation back
atomic(before, w) ==
    IF w.exc # "" THEN Work(w.exc, before.store, w.to_remove, before.rel)
    ELSE w

\* lines 521-547: do_put(request, *args) on the store and the relation of
\* w, with the to_remove of line 531; the queryset of a single update is
\* that of _get_qs, filtered as for a GET
do_put(w, req) ==
    IF req.bulk
    THEN atomic(w, BulkFrom(w, req.items,
                            IF req.lookup = "" THEN "id" ELSE req.lookup,
                            req.rel, 1))
    ELSE IF get_qs(w.store, req).exc # ""
    THEN Work(get_qs(w.store, req).exc, w.store, w.to_remove, w.rel)
    ELSE update_entity(w, [kind |-> "get", req |-> req], req.items[1],
                       FALSE, req.rel)

\* What a request is answered with: the exception that ended it or the
\* status of the response, and the no_updates of an OPTIONS answer
Answered(exc, status, no_updates) ==
    [exc |-> exc, status |-> status, no_updates |-> no_updates]

\* lines 595-600: put
put(w) ==
    IF w.exc \in {"KeyError", "FieldDoesNotExist", "TypeError"}
    THEN (IF err(w.exc, 400).exc # ""
          THEN Answered(err(w.exc, 400).exc, 0, <<>>)
          ELSE Answered("", 400, <<>>))
    ELSE IF w.exc # "" THEN Answered(w.exc, 0, <<>>)
    ELSE Answered("", 204, <<>>)

\* lines 639-645: options, the no_updates of its answer
no_updates(cls) ==
    IF cls.kind = "none" THEN <<>>
    ELSE (IF cls.kind = "undeclared" THEN <<>> ELSE cls.l) \o <<"id">>

options(cls) == Answered("", 200, no_updates(cls))

\* lines 611 and 616: delete hands the ids it found to _get_qs as its
\* positional arguments, and _get_qs looks for the ids in the first of them
DeleteArgs(req) ==
    [req EXCEPT !.path =
        IF Len(get_ids_from_args(req.path, req.ids)) = 0
        THEN PathArg("noarg", <<>>)
        ELSE PathArg("str", get_ids_from_args(req.path, req.ids)[1])]

\* lines 602-620: delete(request, *args): its answer, the store and the
\* relation; the rows of the relation go with the entities they belong to
delete(store, rel, req) ==
    IF Len(get_ids_from_args(req.path, req.ids)) = 0 /\ ~req.ids.present
    THEN [answer |-> Answered(err("no ids", 400).exc, err("no ids", 400).v,
                              <<>>),
          store |-> store, rel |-> rel]
    ELSE IF get_qs(store, DeleteArgs(req)).exc = "TypeError"
    THEN [answer |-> Answered(err("TypeError", 400).exc,
                              err("TypeError", 400).v, <<>>),
          store |-> store, rel |-> rel]
    ELSE IF get_qs(store, DeleteArgs(req)).exc # ""
    THEN [answer |-> Answered(get_qs(store, DeleteArgs(req)).exc, 0, <<>>),
          store |-> store, rel |-> rel]
    ELSE [answer |-> Answered("", 204, <<>>),
          store |-> store \ get_qs(store, DeleteArgs(req)).rows,
          rel |-> [i \in DOMAIN rel |->
                      IF \E e \in get_qs(store, DeleteArgs(req)).rows :
                            e.id = i
                      THEN {} ELSE rel[i]]]

\* the items of a body: the data of an entity
Items ==
    {<<>>, [name |-> "y"], [id |-> 2], [id |-> 1, name |-> "y"],
     [name |-> "x", id |-> 2]}

RECURSIVE ItemLists(_)
ItemLists(n) ==
    IF n = 0 THEN {<<>>}
    ELSE ItemLists(n - 1) \cup
         {Append(l, it) : l \in {k \in ItemLists(n - 1) : Len(k) = n - 1},
                          it \in Items}

\* A request: its method, the path argument, the query string (ids and
\* the parameters that may name fields), the public_fields of the model,
\* and the body: the data of one entity or of a list, the lookup, the block
\* of tags of the body (rel) and the blocks of the items of a list (rels)
PutReq(method, bulk, path, lookup, items) ==
    [method |-> method, bulk |-> bulk, path |-> path, lookup |-> lookup,
     items |-> items, ids |-> Absent, params |-> <<>>,
     public_fields |-> <<>>,
     rel |-> [present |-> FALSE, add |-> <<>>, delete |-> <<>>],
     rels |-> <<>>]
NoPutReq == PutReq("", FALSE, PathArg("noarg", <<>>), "", <<>>)
NoPutOut ==
    [answer |-> Answered("-", 0, <<>>), before |-> {},
     rel_before |-> [i \in 1..MaxId |-> {}]]

\* the blocks of tags a body can hold
Blocks ==
    {[present |-> FALSE, add |-> <<>>, delete |-> <<>>],
     [present |-> TRUE, add |-> <<{MaxTag}>>, delete |-> <<>>],
     [present |-> TRUE, add |-> <<>>, delete |-> <<{1}>>],
     [present |-> TRUE, add |-> <<{MaxTag}>>, delete |-> <<{1}>>]}

\* the query string and the public_fields of a request: nothing, the ids
\* parameter, a field filter, or a model that makes only name public
Filters ==
    {[ids |-> Absent, params |-> <<>>, public_fields |-> <<>>],
     [ids |-> Present(<<"2">>), params |-> <<>>, public_fields |-> <<>>],
     [ids |-> Absent, params |-> [name |-> "x"], public_fields |-> <<>>],
     [ids |-> Absent, params |-> <<>>, public_fields |-> <<"name">>]}

PutInit ==
    /\ putStore \in Stores
    /\ putDeclared \in {[kind |-> "undeclared", l |-> <<>>],
                        [kind |-> "none", l |-> <<>>], AList(<<"name">>)}
    /\ putClass = putDeclared
    /\ putFirst = [seen |-> FALSE, v |-> <<>>]
    /\ putPc = "idle"
    /\ putReq = NoPutReq
    /\ putOut = NoPutOut
    /\ \E t \in {{}, {1}} :
          putRel = [i \in 1..MaxId |->
                      IF \E e \in putStore : e.id = i THEN t ELSE {}]

PutIdle ==
    /\ putStore = {}
    /\ putDeclared = [kind |-> "undeclared", l |-> <<>>]
    /\ putClass = putDeclared
    /\ putFirst = [seen |-> FALSE, v |-> <<>>]
    /\ putPc = "idle"
    /\ putReq = NoPutReq
    /\ putOut = NoPutOut
    /\ putRel = [i \in 1..MaxId |-> {}]

\* a PUT with one object as its data
SinglePutRequest ==
    /\ putPc = "idle"
    /\ Len(putClass.l) <= MaxNoUpdate
    /\ \E pa \in {PathArg("noarg", <<>>), PathArg("str", <<"1">>),
                  PathArg("str", <<"2", "/">>)},
          it \in Items, fl \in Filters, bl \in Blocks :
          putReq' = [PutReq("PUT", FALSE, pa, "", <<it>>) EXCEPT
                        !.ids = fl.ids, !.params = fl.params,
                        !.public_fields = fl.public_fields, !.rel = bl]
    /\ putPc' = "requested"
    /\ UNCHANGED <<putStore, putClass, putDeclared, putFirst, putOut, putRel,
                   pageVars, serVars, viewVars, envVars, getVars, schVars>>

\* a PUT with a list as its data; an item comes with a block of tags of
\* its own or without one
BulkPutRequest ==
    /\ putPc = "idle"
    /\ Len(putClass.l) <= MaxNoUpdate
    /\ \E lk \in {"", "name"}, its \in ItemLists(MaxItems),
          bl \in {b \in Blocks : b.delete = <<>>} :
          \E bls \in [1..Len(its) -> {b \in Blocks : b.delete = <<>>}] :
              putReq' = [PutReq("PUT", TRUE, PathArg("noarg", <<>>), lk, its)
                            EXCEPT !.rel = bl, !.rels = bls]
    /\ putPc' = "requested"
    /\ UNCHANGED <<putStore, putClass, putDeclared, putFirst, putOut, putRel,
                   pageVars, serVars, viewVars, envVars, getVars, schVars>>

\* a DELETE; it has no body
DeleteRequest ==
    /\ putPc = "idle"
    /\ \E pa \in {PathArg("noarg", <<>>), PathArg("none", <<>>),
                  PathArg("str", <<"1">>),
                  PathArg("str", <<"1", "/", "2", "/">>)},
          fl \in Filters :
          putReq' = [PutReq("DELETE", FALSE, pa, "", <<>>) EXCEPT
                        !.ids = fl.ids, !.params = fl.params,
                        !.public_fields = fl.public_fields]
    /\ putPc' = "requested"
    /\ UNCHANGED <<putStore, putClass, putDeclared, putFirst, putOut, putRel,
                   pageVars, serVars, viewVars, envVars, getVars, schVars>>

OptionsRequest ==
    /\ putPc = "idle"
    /\ putReq' = PutReq("OPTIONS", FALSE, PathArg("noarg", <<>>), "", <<>>)
    /\ putPc' = "requested"
    /\ UNCHANGED <<putStore, putClass, putDeclared, putFirst, putOut, putRel,
                   pageVars, serVars, viewVars, envVars, getVars, schVars>>

PutWith(w) ==
    /\ putStore' = w.store
    /\ putRel' = w.rel
    /\ putClass' = (IF putClass.kind = "list" THEN w.to_remove ELSE putClass)
    /\ putOut' = [answer |-> put(w), before |-> putStore,
                  rel_before |-> putRel]

\* line 531: to_remove = getattr(self, '_no_update_fields', [])
DoPut ==
    /\ putPc = "requested"
    /\ putReq.method = "PUT"
    /\ PutWith(do_put(Work("", putStore,
                           IF putClass.kind = "undeclared" THEN AList(<<>>)
                           ELSE putClass,
                           putRel),
                      putReq))
    /\ putPc' = "answered"
    /\ UNCHANGED <<putDeclared, putFirst, putReq,
                   pageVars, serVars, viewVars, envVars, getVars, schVars>>

DeleteWith(d) ==
    /\ putStore' = d.store
    /\ putRel' = d.rel
    /\ putOut' = [answer |-> d.answer, before |-> putStore,
                  rel_before |-> putRel]

Delete ==
    /\ putPc = "requested"
    /\ putReq.method = "DELETE"
    /\ DeleteWith(delete(putStore, putRel, putReq))
    /\ putPc' = "answered"
    /\ UNCHANGED <<putClass, putDeclared, putFirst, putReq,
                   pageVars, serVars, viewVars, envVars, getVars, schVars>>

Options ==
    /\ putPc = "requested"
    /\ putReq.method = "OPTIONS"
    /\ putOut' = [answer |-> options(putClass), before |-> putStore,
                  rel_before |-> putRel]
    /\ putFirst' = IF putFirst.seen THEN putFirst
                   ELSE [seen |-> TRUE, v |-> no_updates(putClass)]
    /\ putPc' = "answered"
    /\ UNCHANGED <<putStore, putClass, putDeclared, putReq, putRel,
                   pageVars, serVars, viewVars, envVars, getVars, schVars>>

PutDone ==
    /\ putPc = "answered"
    /\ putPc' = "idle"
    /\ putReq' = NoPutReq
    /\ putOut' = NoPutOut
    /\ UNCHANGED <<putStore, putClass, putDeclared, putFirst, putRel,
                   pageVars, serVars, viewVars, envVars, getVars, schVars>>

PutNext ==
    SinglePutRequest \/ BulkPutRequest \/ DeleteRequest \/ OptionsRequest
        \/ DoPut \/ Delete \/ Options \/ PutDone

---------------------------------------------------------------------------
(* mview/modelviews.py lines 245-251: the field_names property and its     *)
(* cache, the attribute _field_names of the view instance.  as_view        *)
(* (router/routes.py lines 144 and 348) gives every request an instance of *)
(* its own; requests in progress interleave.                               *)

Requests == 1..MaxRequests

\* no instance: the request has not started, or has ended
NoInstance == [live |-> FALSE, has |-> FALSE, cached |-> <<>>, reads |-> 0]

SchInit ==
    /\ schClass \in {<<>>, <<"id", "name">>, <<"name">>, <<"id">>}
    /\ schInst = [r \in Requests |-> NoInstance]
    /\ schBuilds = 0

SchIdle ==
    /\ schClass = <<>>
    /\ schInst = [r \in Requests |-> NoInstance]
    /\ schBuilds = 0

\* a request arrives and the view function makes its instance
AsView ==
    /\ \E r \in Requests :
          /\ ~schInst[r].live
          /\ schInst' = [schInst EXCEPT
                            ![r] = [live |-> TRUE, has |-> FALSE,
                                    cached |-> <<>>, reads |-> 0]]
    /\ UNCHANGED <<schClass, schBuilds,
                   pageVars, serVars, viewVars, envVars, getVars, putVars>>

\* the request reads self.field_names for the first time
FieldNamesCompute ==
    /\ schBuilds < MaxBuilds
    /\ \E r \in Requests :
          /\ schInst[r].live /\ ~schInst[r].has
          /\ schInst' = [schInst EXCEPT
                            ![r].has = TRUE,
                            ![r].cached = field_names(schClass),
                            ![r].reads = @ + 1]
    /\ schBuilds' = schBuilds + 1
    /\ UNCHANGED <<schClass,
                   pageVars, serVars, viewVars, envVars, getVars, putVars>>

\* the request reads self.field_names again
FieldNamesRead ==
    /\ \E r \in Requests :
          /\ schInst[r].live /\ schInst[r].has
          /\ schInst[r].reads < MaxReads
          /\ schInst' = [schInst EXCEPT ![r].reads = @ + 1]
    /\ UNCHANGED <<schClass, schBuilds,
                   pageVars, serVars, viewVars, envVars, getVars, putVars>>

\* the request is answered and its instance is dropped
RequestEnd ==
    /\ \E r \in Requests :
          /\ schInst[r].live /\ schInst[r].has
          /\ schInst' = [schInst EXCEPT ![r] = NoInstance]
    /\ UNCHANGED <<schClass, schBuilds,
                   pageVars, serVars, viewVars, envVars, getVars, putVars>>

SchNext == AsView \/ FieldNamesCompute \/ FieldNamesRead \/ RequestEnd

---------------------------------------------------------------------------
(* The specifications: one component runs, the others stay idle. *)

InitPage == PageInit /\ SerIdle /\ ViewInit /\ EnvInit /\ GetIdle /\ PutIdle
    /\ SchIdle

SpecPage == InitPage /\ [][PageNext]_vars

InitSer == SerInit /\ PageInit /\ ViewInit /\ EnvInit /\ GetIdle /\ PutIdle
    /\ SchIdle

SpecSer == InitSer /\ [][SerNext]_vars

InitView == ViewInit /\ PageInit /\ SerIdle /\ EnvInit /\ GetIdle /\ PutIdle
    /\ SchIdle

SpecView == InitView /\ [][ViewNext]_vars

InitEnv == EnvInit /\ PageInit /\ SerIdle /\ ViewInit /\ GetIdle /\ PutIdle
    /\ SchIdle

SpecEnv == InitEnv /\ [][EnvNext]_vars

InitGet == GetInit /\ PageInit /\ SerIdle /\ ViewInit /\ EnvInit /\ PutIdle
    /\ SchIdle

SpecGet == InitGet /\ [][GetNext]_vars

InitPut ==
    PutInit /\ PageInit /\ SerIdle /\ ViewInit /\ EnvInit /\ GetIdle
        /\ SchIdle

InitSch ==
    SchInit /\ PageInit /\ SerIdle /\ ViewInit /\ EnvInit /\ GetIdle
        /\ PutIdle

SpecPut == InitPut /\ [][PutNext]_vars

SpecSch == InitSch /\ [][SchNext]_vars

---------------------------------------------------------------------------
(* Properties of the pagination engine *)

IsInt(x) == int(x).exc = ""
IntOf(x) == int(x).v
PageDone == pagePc = "done"

\* C1: for a total >= 0, an integer limit >= 1 and an integer page >= 1,
\* paginator returns pageCount = max(floor(total/limit), 2 if total > limit
\* else 1), the page clamped down to pageCount, offset = limit*(page-1), and a
\* returned count of limit, except on the last page with page > 1 and
\* total-offset > 0, where it is total-offset; total=25, limit=10 gives
\* pageCount=2.
C1_PaginatorRule ==
    (PageDone /\ IsInt(pageReq.limit) /\ IsInt(pageReq.page)
        /\ IntOf(pageReq.limit) >= 1 /\ IntOf(pageReq.page) >= 1)
    => LET total == rowCount
           limit == IntOf(pageReq.limit)
           pageCount == Max(total \div limit, IF total > limit THEN 2 ELSE 1)
           page == IF IntOf(pageReq.page) <= pageCount
                   THEN IntOf(pageReq.page) ELSE pageCount
           offset == limit * (page - 1)
       IN  /\ pageOut.exc = ""
           /\ pageOut.paging.count = total
           /\ pageOut.paging.limit = limit
           /\ pageOut.paging.number_of_pages = pageCount
           /\ pageOut.paging.page_num = page
           /\ pageOut.paging.offset = offset
           /\ pageOut.paging.returned =
                 IF page = pageCount /\ page > 1 /\ total - offset > 0
                 THEN total - offset ELSE limit
           /\ (total = 25 /\ limit = 10 => pageOut.paging.number_of_pages = 2)

\* C1 witness: 25 rows, limit 10, page 3: two pages, page clamped to 2,
\* offset 10, 15 reported as returned.
C1_Witness ==
    /\ PageDone /\ rowCount = 25
    /\ pageReq.limit = PyStr(<<"1", "0">>) /\ pageReq.page = PyInt(3)
    /\ pageOut.paging.number_of_pages = 2 /\ pageOut.paging.page_num = 2
    /\ pageOut.paging.offset = 10 /\ pageOut.paging.returned = 15

\* C2: in every paging block, for any integer page input (0 and negative
\* values included), the reported page number lies in [1, pageCount] and the
\* slice offset is non-negative.
C2_PageWithinRange ==
    (PageDone /\ IsInt(pageReq.page) /\ LimitOf(pageReq.limit).exc = "")
    => /\ pageOut.exc = ""
       /\ pageOut.rslt.page_number >= 1
       /\ pageOut.rslt.page_number <= pageOut.rslt.page_count
       /\ pageOut.paging.offset >= 0

\* C3: the pagination engine never fails on its limit and page inputs: a
\* limit that is <= 0 or not numeric is replaced by 10, a page that is not
\* numeric by 1.
C3_DefaultsNeverFail ==
    (PageDone /\ (~IsInt(pageReq.page) \/ IntOf(pageReq.page) >= 1))
    => /\ pageOut.exc = ""
       /\ (~IsInt(pageReq.limit) \/ IntOf(pageReq.limit) <= 0)
             => pageOut.rslt.number_per_page = 10
       /\ ~IsInt(pageReq.page) => pageOut.rslt.page_number = 1

\* C4: the number_returned of the paging block equals the number of rows in
\* the data slice returned for that page.
C4_ReturnedIsSliceSize ==
    (PageDone /\ pageOut.exc = "")
    => pageOut.rslt.number_returned = Cardinality(pageOut.qs)


---------------------------------------------------------------------------
(* The graph serializer: claims C5 to C8 *)

\* convert_to_dicts has returned its documents
SerDone == serPc = "done" /\ serOut.exc = ""

\* The documents of the last call, as one set of <<root, entry>>
DocEntries(out) ==
    {<<k, e>> : k \in 1..Len(out.vals), e \in UNION Range(out.vals)}
EntriesOf(out) == {ke \in DocEntries(out) : ke[2] \in out.vals[ke[1]]}

\* The relation fields on a path: how many hops below the root it ends
Hops(path) ==
    Cardinality({i \in 1..Len(path) :
                    path[i] \in {"a", "b", "b2", "c", "cs", "bs"}})

\* C5: with a requested depth d, no related entity appears more than d
\* hops below the root of a returned document, and with depth 0 a document
\* has no relation field at all.
C5_DepthBound ==
    SerDone =>
        \A ke \in EntriesOf(serOut) :
            /\ ke[2].kind = "obj" => Hops(ke[2].path) <= serReq.depth
            /\ serReq.depth = 0 => ke[2].kind \notin {"obj", "list"}

\* C6: with the mutual relation A.b -> B, B.a -> A, serializing an A at any
\* depth returns, and the B document nested under b has no field a.
C6_MutualCycle ==
    (SerDone /\ schema = "mutual" /\ serReq.n > 0) =>
        \A ke \in EntriesOf(serOut) :
            ~(Len(ke[2].path) >= 2 /\ ke[2].path[1] = "b" /\ ke[2].path[2] = "a")

\* C7: serializing the same entities twice in one process yields identical
\* documents.
C7_SameTwice ==
    (serPc = "done" /\ serPrev # NoSerOut /\ serPrev.exc = "") =>
        serOut.exc = "" /\ serOut.vals = serPrev.vals


\* C8: when convert_to_dicts returns, both visited sets are what they were
\* when it was called, so the relation cs of B is expanded under the
\* sibling b2 exactly when it is expanded under the sibling b.
C8_VisitedRestored ==
    SerDone =>
        /\ rels = serReq.rels
        /\ fos = serReq.fos
        /\ \A k \in 1..Len(serOut.vals) :
              (\E e \in serOut.vals[k] : e.path = <<"b", "cs">>)
                  <=> (\E e \in serOut.vals[k] : e.path = <<"b2", "cs">>)

---------------------------------------------------------------------------
(* The expansion depth and the envelope: claims C9 and C10 *)

\* dispatch has handed the request to its handler
Dispatched == viewPc = "dispatched" /\ viewOut.resp = "handler"

\* a parameter that is present and numeric
IsNumeric(x) ==
    x.t = "str" /\ Len(x.s) > 0 /\ \A i \in 1..Len(x.s) : x.s[i] \in Digits

\* C9: the expansion depth is the value of _depth when _depth is present
\* and numeric, also for _depth=0 sent with _expand; it is 1 when _depth is
\* absent and _expand is present; otherwise it is 0.
C9_DepthFromRequest ==
    Dispatched =>
        viewOut.sdepth =
            IF IsNumeric(viewReq.depth) THEN StrVal(viewReq.depth.s)
            ELSE IF viewReq.depth = PyNone /\ viewReq.expand_param THEN 1
            ELSE 0

\* the request asks for pagination: it carries _page or _limit, or the
\* model paginates by default
PaginationRequested(req) ==
    req.page # PyNone \/ req.limit # PyNone \/ req.paginate_attr

\* the case in which the envelope is the bare document
SingleCase(req) ==
    /\ req.n = 1
    /\ ~PaginationRequested(req)
    /\ req.return_singles
    /\ ~req.no_singles

\* C10: the envelope is the bare document if and only if exactly one row
\* matches, pagination was not requested, RETURN_SINGLES is set and no
\* no_singles override applies; in every other case it is the wrapper with
\* count and data.
C10_BareIffSingle ==
    envPc = "done" =>
        /\ SingleCase(envReq) => envOut.kind = "bare"
        /\ ~SingleCase(envReq) => envOut.kind = "wrapper"

---------------------------------------------------------------------------
(* The url of a top-level document: claim C11 *)

\* _serialize_json has returned an envelope
EnvDone == envPc = "done" /\ envOut.exc = ""

\* the document of row i carries a url field
HasUrl(out, i) == \E u \in out.urls : u[1] = i

---------------------------------------------------------------------------
(* Claims about the GET handler *)

\* do_get returned the rows of a query
GotRows == getPc = "answered" /\ getOut.got.exc = "" /\ getOut.got.kind = "qs"

\* the ids the request names: the segments of the path and the csv of ids
PathIds(req) == IF req.path.kind = "str" THEN IdsFromPath(req.path) ELSE <<>>
ParamIds(req) == IF req.ids.present THEN split(req.ids.s, ",") ELSE <<>>
WantedIds(req) == PathIds(req) \o ParamIds(req)
NamesIds(req) ==
    /\ Len(WantedIds(req)) > 0
    /\ \A i \in 1..Len(WantedIds(req)) : IsIdPart(WantedIds(req)[i])
InWanted(req, e) ==
    \E i \in 1..Len(WantedIds(req)) : IdOfPart(WantedIds(req)[i]) = e.id

\* the field filters of the request: the parameters that are field names
FilterFieldsOf(req) ==
    DOMAIN req.params \cap Range(field_names(req.public_fields))
SatisfiesFields(req, e) == \A f \in FilterFieldsOf(req) : e[f] = req.params[f]

\* C12: a GET that names ids, in the path, in the ids parameter or in both,
\* returns exactly the entities whose primary key is one of them and that
\* satisfy the field filters, also when the handler got no path argument.
C12_IdUnion ==
    (GotRows /\ ~getReq.latest /\ NamesIds(getReq)) =>
        getOut.got.rows =
            {e \in getStore : InWanted(getReq, e) /\ SatisfiesFields(getReq, e)}

\* the request without the parameters that are no field names
WithoutUnknown(req) ==
    [req EXCEPT !.params = [f \in FilterFieldsOf(req) |-> req.params[f]]]

\* the entities the ids of the request select, before the field filters
IdFiltered(store, req) ==
    FilterArgs(store, field_names(req.public_fields),
               get_ids_from_args(req.path, req.ids))

WithoutAggs(req) == [req EXCEPT !.aggs = Absent]

\* the same GET without _aggs returns rows
RowsWithoutAggs ==
    /\ do_get(getStore, WithoutAggs(getReq)).exc = ""
    /\ do_get(getStore, WithoutAggs(getReq)).kind = "qs"

\* a token of _aggs that is an operator, one separator and a field
ValidToken(tok, fields) ==
    /\ Len(tok) = 3
    /\ tok[1] \in {"max", "min", "avg"}
    /\ tok[2] \in {" ", "+"}
    /\ tok[3] \in Range(fields)

\* the names of the aggregates the valid tokens of _aggs ask for
ValidAggNames(req) ==
    {<<tok[1], "_", tok[3]>> :
        tok \in {t \in Range(split(req.aggs.s, ",")) :
                    ValidToken(t, field_names(req.public_fields))}}

\* C14: _aggs never fails a GET: a token with an unknown operator, an
\* unknown field, no separator or more than two parts is dropped, and every
\* valid token gives one aggregate named <op>_<field>.
C14_AggsNeverFail ==
    (getPc = "answered" /\ getReq.aggs.present /\ RowsWithoutAggs) =>
        /\ GotRows
        /\ getOut.got.aggs = ValidAggNames(getReq)

\* C15: a GET with valid aggregation requests answers with the aggregates
\* under the extra key, and with no detail rows when _aggs_only is set.
C15_AggsInExtra ==
    (GotRows /\ getReq.aggs.present /\ ValidAggNames(getReq) # {}) =>
        /\ getOut.resp.exc = ""
        /\ getOut.resp.extra
        /\ getReq.aggs_only => getOut.resp.rows = {}

\* what the same GET returns without the latest flag
WithoutLatest == do_get(getStore, [getReq EXCEPT !.latest = FALSE])

\* C16: with the latest flag a GET returns only the first row of the
\* filtered set, and an empty result when the filtered set is empty.
C16_LatestFirstRow ==
    (getPc = "answered" /\ getReq.latest
        /\ WithoutLatest.exc = "" /\ WithoutLatest.kind = "qs") =>
        /\ GotRows
        /\ getOut.got.rows \subseteq WithoutLatest.rows
        /\ Cardinality(getOut.got.rows) =
                IF Cardinality(WithoutLatest.rows) <= 1
                THEN Cardinality(WithoutLatest.rows) ELSE 1
        /\ \A e \in getOut.got.rows : \A o \in WithoutLatest.rows : e.id <= o.id

---------------------------------------------------------------------------
(* Claims about the PUT and OPTIONS handlers *)

PutAnswered == putPc = "answered" /\ putReq.method = "PUT"

\* an item of the data list has no value for the lookup
LacksLookup(req) ==
    \E i \in 1..Len(req.items) :
        (IF req.lookup = "" THEN "id" ELSE req.lookup)
            \notin DOMAIN req.items[i]

\* the answer is a response with a 4xx status
ClientError(answer) == answer.exc = "" /\ answer.status \in 400..499

\* C17: a bulk PUT with an item that lacks the lookup field ends with a
\* client error, and the store is as the request found it, also for the
\* items before the faulty one.
C17_BulkLookupError ==
    (PutAnswered /\ putReq.bulk /\ LacksLookup(putReq)) =>
        /\ ClientError(putOut.answer)
        /\ putStore = putOut.before

\* the fields a PUT must leave alone: the declared list and id
Protected == Range(putDeclared.l) \cup {"id"}

\* C18: a PUT, of one object or of a list, changes neither a field listed
\* in _no_update_fields nor the id of any entity.
C18_NoUpdateFieldsKept ==
    PutAnswered =>
        \A e \in putOut.before :
            \E o \in putStore :
                /\ o.id = e.id
                /\ \A f \in Protected : o[f] = e[f]

\* C19: requests never change the schema data of the type: the list
\* _no_update_fields holds what the class declares, and every OPTIONS answer
\* reports the no_updates of the first one.
C19_DenyListUnchanged ==
    /\ putClass = putDeclared
    /\ (putPc = "answered" /\ putReq.method = "OPTIONS") =>
           putOut.answer.no_updates = putFirst.v

---------------------------------------------------------------------------
(* Claims about the schema cache *)

\* C20: over any requests for one type, one after the other or at the same
\* time, field_names is computed at most once, and every request reads the
\* same value.
C20_SchemaBuiltOnce ==
    /\ schBuilds <= 1
    /\ \A r, q \in Requests :
           (schInst[r].has /\ schInst[q].has) =>
               schInst[r].cached = schInst[q].cached

---------------------------------------------------------------------------
(* Claims about the gate in front of the handlers: C24 and C30 *)

\* the request of a user who is not logged in, to a model whose _perms is
\* not empty, with a method the view allows
AnonymousGated ==
    /\ viewPc = "dispatched"
    /\ viewReq.user = "anonymous"
    /\ viewReq.perms \in {"other", "keyed"}
    /\ viewReq.method \in allowed_methods

\* C24: with a non-empty _perms the request of an unauthenticated user is
\* rejected with an authentication error for every method, the methods that
\* are no keys of _perms included, and does not reach the handler.
C24_AnonymousRejected ==
    AnonymousGated =>
        /\ viewOut.resp = "AuthenticationError"
        /\ viewOut.exc = ""

\* C30: a request whose body is not valid JSON is answered with a client
\* error and no handler runs, for every method.
C30_InvalidBodyClientError ==
    (viewPc = "dispatched" /\ viewReq.body = "garbage") =>
        /\ viewOut.resp # "handler"
        /\ ClientError(viewOut)

---------------------------------------------------------------------------
(* Claims about the depth counter and the nested filters: C25 and C27 *)

\* the relation fields along a path, the positions in lists left out
Chain(path) ==
    SelectSeq(path, LAMBDA p : p \in {"a", "b", "b2", "c", "cs", "bs"})

\* the document holds an entity at the end of the chain of relations
ExpandedAt(doc, chain) ==
    \E e \in doc : e.kind = "obj" /\ Chain(e.path) = chain

\* Chains of relations without a cycle, of one and of two hops: to-one and
\* to-one in the schema chain, to-one and to-many in the schema siblings
ChainsOf(sch) ==
    IF sch = "chain" THEN {<<"b">>, <<"b", "c">>}
    ELSE {<<"b">>, <<"b", "cs">>}

\* a call that starts with empty visited sets and filters no field out
PlainCall ==
    /\ SerDone
    /\ serReq.n > 0
    /\ serReq.rels = {} /\ serReq.fos = {}
    /\ serReq.field_names.form = "dict"
    /\ serReq.field_names.base = ModelFields(schema, "A")
    /\ serReq.field_names.nested = <<>>

\* C25: every hop, to-one or to-many, advances the depth counter by 1: a
\* chain of k relation hops from the root is expanded exactly when k is at
\* most the requested depth, however to-one and to-many are mixed.
C25_HopPerRelation ==
    (PlainCall /\ schema \in {"chain", "siblings"}) =>
        \A k \in 1..Len(serOut.vals) : \A chain \in ChainsOf(schema) :
            ExpandedAt(serOut.vals[k], chain) <=> Len(chain) <= serReq.depth

\* a call whose field_names names a filter for the to-one relation b of the
\* root, on a schema in which the root has b
NestedCall ==
    /\ serPc = "done"
    /\ serReq.n > 0
    /\ serReq.base_type # "none"
    /\ schema # "rootmany"
    /\ serReq.field_names.form = "dict"
    /\ "b" \in Range(serReq.field_names.base)
    /\ "b" \in DOMAIN serReq.field_names.nested

\* the keys of the document nested under b
KeysUnderB(doc) ==
    {e.path[2] : e \in {x \in doc : Len(x.path) = 2 /\ x.path[1] = "b"}}

\* C27: expanding a to-one relation with a filter of its own succeeds for
\* every filter, one without the unique id included; the nested document
\* holds the filtered fields only and, with hyperlinking, the url of the
\* related entity.
C27_NestedFilterExpands ==
    NestedCall =>
        /\ serOut.exc = ""
        /\ \A k \in 1..Len(serOut.vals) :
              /\ KeysUnderB(serOut.vals[k]) \ {"url"}
                    \subseteq Range(serReq.field_names.nested["b"])
              /\ hyperlinks <=> "url" \in KeysUnderB(serOut.vals[k])

---------------------------------------------------------------------------
(* Claim about the pages taken together: C29 *)

\* the rows of page p of the queryset, with the limit of the last call
RowsOfPage(p) == paginator(rowCount, pageReq.limit, PyInt(p)).rows

\* C29: for every count and limit, the pages 1..pageCount hold every row
\* of the filtered set exactly once: the slices are pairwise disjoint and
\* their union is the whole set.
C29_PagesPartition ==
    (PageDone /\ IsInt(pageReq.limit) /\ IntOf(pageReq.limit) >= 1
        /\ pageOut.exc = "") =>
        /\ \A p, q \in 1..pageOut.paging.number_of_pages :
              p # q => RowsOfPage(p) \cap RowsOfPage(q) = {}
        /\ UNION {RowsOfPage(p) : p \in 1..pageOut.paging.number_of_pages}
              = 1..rowCount

---------------------------------------------------------------------------
(* Claims about DELETE and about the rows a write selects: C21, C22, C23,  *)
(* C26 and C28                                                             *)

DeleteAnswered == putPc = "answered" /\ putReq.method = "DELETE"
SinglePutAnswered == PutAnswered /\ ~putReq.bulk

\* the entities the request removed or changed
Touched == putOut.before \ putStore

\* the queryset a GET with the path, the ids and the parameters of the
\* request makes on the store the request found
AsGet == get_qs(putOut.before, putReq)

\* C21: DELETE removes exactly the entities that a GET with the same path
\* ids, ids parameter and field filters returns: with the path /1/2/ the
\* entities 1 and 2, and no entity outside the result of the GET.
C21_DeleteWhatGetReturns ==
    (DeleteAnswered /\ Len(WantedIds(putReq)) > 0 /\ AsGet.exc = "") =>
        Touched = AsGet.rows

\* C22: a DELETE without ids in the path and without the ids parameter is
\* answered with an error response and deletes nothing, whatever the field
\* filters.
C22_DeleteNeedsIds ==
    (DeleteAnswered /\ Len(WantedIds(putReq)) = 0) =>
        /\ ClientError(putOut.answer)
        /\ putStore = putOut.before

\* a PUT of one object or a DELETE with ids, whose filter matches no entity
MatchesNothing ==
    /\ SinglePutAnswered \/ (DeleteAnswered /\ Len(WantedIds(putReq)) > 0)
    /\ AsGet.exc = ""
    /\ AsGet.rows = {}

\* C23: a PUT or a DELETE whose filter matches no entity succeeds, without
\* an error response and without an exception, and leaves the store as it
\* was, also when the body of the PUT has add and delete lists for a
\* many-to-many field.
C23_NothingMatchedSucceeds ==
    MatchesNothing =>
        /\ putOut.answer.exc = ""
        /\ putOut.answer.status \in 200..299
        /\ putStore = putOut.before
        /\ putRel = putOut.rel_before

\* a bulk PUT that succeeded, whose items change no id and whose body has
\* no block of tags of its own
PlainBulk ==
    /\ PutAnswered /\ putReq.bulk
    /\ putOut.answer.exc = ""
    /\ ~putReq.rel.present
    /\ \A i \in 1..Len(putReq.items) :
          putReq.lookup = "" \/ "id" \notin DOMAIN putReq.items[i]

\* C26: in a bulk update the block of tags of an item is applied to the
\* entity the lookup value of that item selects: after the request the ids
\* of its add list are among the tags of that entity.
C26_BulkItemRelations ==
    PlainBulk =>
        \A i \in 1..Len(putReq.items) :
            putReq.rels[i].add # <<>> =>
                \A e \in putStore :
                    e[IF putReq.lookup = "" THEN "id" ELSE putReq.lookup]
                        = putReq.items[i]
                            [IF putReq.lookup = "" THEN "id"
                             ELSE putReq.lookup]
                    => putReq.rels[i].add[1] \subseteq putRel[e.id]

\* C28: when the request names at least one id, in the path or in the ids
\* parameter, every entity a GET returns, a PUT updates or a DELETE removes
\* has its primary key among these ids, also when the public_fields of the
\* model leave the primary key out.
C28_OnlyNamedIds ==
    /\ (GotRows /\ ~getReq.latest /\ NamesIds(getReq)) =>
           \A e \in getOut.got.rows : InWanted(getReq, e)
    /\ ((SinglePutAnswered \/ DeleteAnswered) /\ NamesIds(putReq)) =>
           \A e \in Touched : InWanted(putReq, e)

====
